---- MODULE Spec2Model ----
(***************************************************************************)
(* Request admission and batch coordination of bananabot.                  *)
(*                                                                         *)
(*   SpecLimiter : bot/utils/rate_limiter.py   (RateLimiter, RateLimitInfo) *)
(*   SpecLimiterOps : the same, with get_user_status and reset_user        *)
(*   SpecHandlers : bot/main.py and slash_bot.py, one handler run at a time *)
(*   SpecDirect  : bot/services/gemini_client.py (generate / edit / fuse)  *)
(*   SpecBatch   : bot/services/batch_client_v2.py (process_batch) and the *)
(*                 caller slash_bot.py (_process_with_batch_or_regular)    *)
(*                                                                         *)
(* Scheduling.  The program is a single asyncio event loop.  A coroutine   *)
(* gives up control only where it awaits something that is not ready: an   *)
(* executor call, asyncio.sleep, or a lock that another task holds.  No    *)
(* lock of the rate limiter is held over such a point (the bodies of the   *)
(* `async with` blocks contain no await), so a lock is always free when a  *)
(* task reaches it and every RateLimiter coroutine runs from its first     *)
(* line to its return in one step of the event loop.  Tasks interleave     *)
(* between those steps, in any order, and time may pass between them.      *)
(***************************************************************************)
EXTENDS Integers, Sequences, FiniteSets, TLC

\* ------------------------------------------------------------------ bounds
MaxRequestsBound == 2
WindowTicks == 1
MaxTime == 2
MaxRetry == 3
MaxPrompts == 3
MaxCalls == 3
NumUsers == 1
MaxInfos == 2
MaxSubmits == 12

UserIds == 1..NumUsers

NoInfo == [id |-> 0, requests |-> <<>>, present |-> FALSE]

VARIABLES
    \* rate limiter
    now,            \* datetime.utcnow(), in ticks
    max_requests,   \* RateLimiter.max_requests
    users,          \* RateLimiter.users : user id -> RateLimitInfo (or NoInfo)
    cleanup_task,   \* RateLimiter._cleanup_task is not None
    pending,        \* per user: check_user(user) calls issued and not yet run
    returned_true,  \* per user: calls of the current group that returned True
    returned_false, \* per user: calls of the current group that returned False
    created,        \* history: RateLimitInfo objects constructed per user
    roundStart,     \* history: time at which the current group of calls was issued
    emptyAtStart,   \* history: per user, no in-window timestamp when the group was issued
    absentAtStart,  \* history: per user, not in users when the group was issued
    createdAtStart, \* history: per user, value of created when the group was issued
    op_ret,         \* what the last get_user_status / reset_user call returned
    raised,         \* a RateLimiter coroutine has let an exception escape
    emptied_at      \* history: per user in users, when its requests list became empty

VARIABLES
    \* RateLimiter.shutdown and the task running _periodic_cleanup
    cleanup_state,  \* "running" | "cancelling" | "finished", of the task once created
    sd_pc           \* "idle" | "waiting" | "returned" | "returned_no_task"

VARIABLES
    \* one RateLimitInfo and the calls of its methods
    i_requests,     \* RateLimitInfo.requests
    i_ret           \* the last method call: its name, what it returned, and when

VARIABLES
    \* the asyncio.Lock objects of the limiter, seen at the suspension points
    locks_held,     \* locks held by coroutines that are suspended
    lk_last         \* the check_user run whose result is not consumed yet: how it
                    \* met the locks

VARIABLES
    \* one run of the batch_generate command (bot/main_v2.py)
    bg_pc,          \* "idle" | "loop" | "called" | "got" | "rejected" | "refused" | "accepted"
    bg_user,        \* user_id of the run
    bg_n,           \* len(prompt_list)
    bg_i,           \* iterations of the rate-limit loop completed
    bg_before       \* history: in-window requests of the user when the command began

VARIABLES
    \* BatchImageClient (bot/services/batch_client.py)
    pending_requests, \* BatchImageClient.pending_requests, requests named 1, 2, ...
    q_submitted,    \* history: calls of submit_batch_request so far
    q_pc,           \* _process_batches: "sleeping" | "processing" | "stopped"
    q_batch,        \* the local `batch` while _process_batch works on it
    q_handed,       \* history: per request, the times it was passed to _process_batch
    q_failed,       \* history: some batch has ended with an exception
    q_shutdown      \* shutdown has been called

VARIABLES
    \* direct path (GeminiImageClient)
    d_pc,           \* "idle" | "loop" | "sleep" | "returned" | "raised"
    d_op,           \* "generate" | "edit" | "fuse"
    retry_count,    \* the retry_count argument
    attempt,        \* the loop variable of `for attempt in range(retry_count)`
    d_calls,        \* history: calls of _generate_sync / _edit_sync / generate_content
    d_outcomes,     \* history: what each attempt of this call met
    d_slept,        \* history: seconds passed to asyncio.sleep by this call
    d_result        \* what the call handed to its caller

VARIABLES
    \* batch path (GeminiBatchProcessor.process_batch and its caller)
    b_pc,           \* "idle" | "start" | "poll" | "sleep" | "fetch" | "returned" | "raised"
    prompts,        \* the prompts argument of process_batch
    job_id,         \* "none" | "real" | "fallback": what submit_batch_job returned
    wait_time,      \* the local wait_time of process_batch
    status,         \* status["status"] of the last check_batch_status, "none" before
    results,        \* the list get_batch_results returned
    b_out,          \* what process_batch handed to its caller
    b_submits,      \* history: calls of submit_batch_job for this job
    b_polls,        \* history: calls of check_batch_status for this job
    b_reply,        \* history: what genai.get_batch did at the last of them
    b_fetches,      \* history: calls of get_batch_results for this job
    c_pc,           \* _process_with_batch_or_regular: "idle" | "batch" | "regular" | "done" | "raised"
    c_prompts,      \* its prompts argument
    c_i,            \* its position in `for prompt in prompts`
    processed_results  \* its processed_results list

VARIABLES
    \* one run of a command handler (bot/main.py, slash_bot.py)
    h_pc,           \* "idle" | "check" | "status" | "handoff" | "handed" | "done"
    h_kind,         \* "_handle_generate" | "_handle_batch" | "generate"
    h_user,         \* user_id of the run
    h_checked,      \* the run has called check_user
    h_admitted,     \* and check_user returned True
    h_handoff       \* "none" | "edit_image" | "process_batch" | "generate_image"

limiterVars == <<now, max_requests, users, cleanup_task, pending, returned_true,
                 returned_false, created, roundStart, emptyAtStart, absentAtStart,
                 createdAtStart, op_ret, raised, emptied_at>>
directVars == <<d_pc, d_op, retry_count, attempt, d_calls, d_outcomes, d_slept, d_result>>

batchVars == <<b_pc, prompts, job_id, wait_time, status, results, b_out, b_submits,
               b_polls, b_reply, b_fetches, c_pc, c_prompts, c_i, processed_results>>

handlerVars == <<h_pc, h_kind, h_user, h_checked, h_admitted, h_handoff>>

shutdownVars == <<cleanup_state, sd_pc>>

infoVars == <<i_requests, i_ret>>

lockVars == <<locks_held, lk_last>>

bgVars == <<bg_pc, bg_user, bg_n, bg_i, bg_before>>

queueVars == <<pending_requests, q_submitted, q_pc, q_batch, q_handed, q_failed,
               q_shutdown>>

extraVars == <<shutdownVars, infoVars, lockVars, bgVars, queueVars>>

nonLimiterVars == <<directVars, batchVars, handlerVars, extraVars>>
nonDirectVars == <<limiterVars, batchVars, handlerVars, extraVars>>
nonBatchVars == <<limiterVars, directVars, handlerVars, extraVars>>

vars == <<limiterVars, directVars, batchVars, handlerVars, extraVars>>

\* --------------------------------------------------------- RateLimitInfo
Min(a, b) == IF a < b THEN a ELSE b

\* requests kept by the list comprehension of is_limited: req_time > cutoff
Prune(reqs, cutoff) == SelectSeq(reqs, LAMBDA r : r > cutoff)

\* number of entries of a sequence of times that lie inside the window at time n
InWindowCount(reqs, n) ==
    Cardinality({i \in 1..Len(reqs) : reqs[i] > n - WindowTicks})

\* RateLimitInfo.is_limited, on the pruned list
is_limited_gt(reqs, m) == Len(reqs) > m
is_limited(reqs, m) == Len(reqs) >= m

\* RateLimitInfo.add_request
add_request_noop(reqs, n) == reqs
add_request(reqs, n) == Append(reqs, n)

\* check_user lines 108-113: get or create the user's RateLimitInfo
get_or_create_never(us, u, cr) == us[u]
get_or_create_always(us, u, cr) == [id |-> cr[u] + 1, requests |-> <<>>, present |-> TRUE]
get_or_create(us, u, cr) ==
    IF ~us[u].present
    THEN [id |-> cr[u] + 1, requests |-> <<>>, present |-> TRUE]
    ELSE us[u]

\* RateLimitInfo.time_until_reset: seconds until the oldest timestamp leaves the
\* window, None when there is no timestamp or it has already left
None == -1

RECURSIVE oldest(_)
oldest(reqs) ==
    IF Len(reqs) = 1 THEN reqs[1] ELSE Min(reqs[1], oldest(Tail(reqs)))

time_until_reset_abs(reqs, n) ==
    IF reqs = <<>> THEN None ELSE oldest(reqs) + WindowTicks

time_until_reset(reqs, n) ==
    IF reqs = <<>> THEN None
    ELSE LET reset_time == oldest(reqs) + WindowTicks
         IN  IF reset_time > n THEN reset_time - n ELSE None

\* get_user_status lines 153: max(0, max_requests - requests_used)
requests_remaining_total(m, used) == m
requests_remaining(m, used) == IF m - used > 0 THEN m - used ELSE 0

\* reset_user line 169: requests.clear()
clear_noop(reqs) == reqs
clear(reqs) == <<>>

\* get_user_status line 136, reset_user line 167: user_id in self.users
has_user(us, u) == us[u].present

\* self.users[user_id] raises KeyError when the key is missing
KeyError(info) == ~info.present

\* _cleanup_old_users line 189
sweep_cutoff_now(n) == n
sweep_cutoff(n) == n - WindowTicks * 2

NoRet == [op |-> "none", user |-> 0, value |-> <<>>]

\* the time since which each user's list in users has been empty (None when the
\* user is not in users or the list holds a timestamp)
EmptiedAfter(us, old, n) ==
    [u \in UserIds |->
        IF us[u].present /\ us[u].requests = <<>>
        THEN (IF old[u] # None THEN old[u] ELSE n)
        ELSE None]

\* ------------------------------------------------------------ RateLimiter
Zero == [u \in UserIds |-> 0]

RECURSIVE SumUpTo(_, _)
SumUpTo(f, k) == IF k = 0 THEN 0 ELSE f[k] + SumUpTo(f, k - 1)
Total(f) == SumUpTo(f, NumUsers)

LimiterInit ==
    /\ now = 0
    /\ max_requests \in 1..MaxRequestsBound
    /\ users = [u \in UserIds |-> NoInfo]
    /\ cleanup_task = FALSE
    /\ pending = Zero
    /\ returned_true = Zero
    /\ returned_false = Zero
    /\ created = Zero
    /\ roundStart = 0
    /\ emptyAtStart = [u \in UserIds |-> TRUE]
    /\ absentAtStart = [u \in UserIds |-> TRUE]
    /\ createdAtStart = Zero
    /\ op_ret = NoRet
    /\ raised = FALSE
    /\ emptied_at = [u \in UserIds |-> None]

\* time passes between two steps of the event loop
Tick ==
    /\ UNCHANGED nonLimiterVars
    /\ now < MaxTime
    /\ now' = now + 1
    /\ op_ret' = NoRet
    /\ UNCHANGED <<max_requests, users, cleanup_task, pending, returned_true,
                   returned_false, created, roundStart, emptyAtStart, absentAtStart,
                   createdAtStart, raised, emptied_at>>

\* command handlers issue a group of check_user calls, n[u] of them for user u;
\* the calls are tasks of the event loop, which runs them in any order
do_Gather(n) ==
    /\ pending = Zero /\ returned_true = Zero /\ returned_false = Zero
    /\ Total(n) >= 1 /\ Total(n) <= MaxCalls
    /\ pending' = n
    /\ roundStart' = now
    /\ emptyAtStart' = [u \in UserIds |->
           n[u] > 0 => InWindowCount(users[u].requests, now) = 0]
    /\ absentAtStart' = [u \in UserIds |-> n[u] > 0 => ~users[u].present]
    /\ createdAtStart' = [u \in UserIds |-> IF n[u] > 0 THEN created[u] ELSE 0]
    /\ op_ret' = NoRet
    /\ UNCHANGED <<now, max_requests, users, cleanup_task, returned_true,
                   returned_false, created, raised, emptied_at>>

Gather(n) == UNCHANGED nonLimiterVars /\ do_Gather(n)

\* RateLimiter.check_user(u), one of the issued calls, from its first line to
\* its return
do_check_user(u) ==
    /\ pending[u] > 0
    /\ has_user(users, u) \/ created[u] < MaxInfos
    /\ LET info    == get_or_create(users, u, created)
           pruned  == Prune(info.requests, now - WindowTicks)
           limited == is_limited(pruned, max_requests)
           reqs    == IF limited THEN pruned ELSE add_request(pruned, now)
       IN  /\ cleanup_task' = TRUE
           /\ raised' = (raised \/ KeyError(info))
           /\ users' = [users EXCEPT ![u] = [info EXCEPT !.requests = reqs]]
           /\ created' = [created EXCEPT ![u] = IF info.id > created[u] THEN info.id ELSE @]
           /\ returned_true' = [returned_true EXCEPT ![u] = IF limited THEN @ ELSE @ + 1]
           /\ returned_false' = [returned_false EXCEPT ![u] = IF limited THEN @ + 1 ELSE @]
    /\ pending' = [pending EXCEPT ![u] = @ - 1]
    /\ emptied_at' = EmptiedAfter(users', emptied_at, now)
    /\ op_ret' = NoRet
    /\ UNCHANGED <<now, max_requests, roundStart, emptyAtStart, absentAtStart,
                   createdAtStart>>

check_user(u) == UNCHANGED nonLimiterVars /\ do_check_user(u)

\* the handlers have consumed the results of the group
do_Collect ==
    /\ pending = Zero
    /\ Total(returned_true) + Total(returned_false) > 0
    /\ returned_true' = Zero
    /\ returned_false' = Zero
    /\ roundStart' = 0
    /\ emptyAtStart' = [u \in UserIds |-> TRUE]
    /\ absentAtStart' = [u \in UserIds |-> TRUE]
    /\ createdAtStart' = Zero
    /\ op_ret' = NoRet
    /\ UNCHANGED <<now, max_requests, users, cleanup_task, pending, created, raised,
                   emptied_at>>

Collect == UNCHANGED nonLimiterVars /\ do_Collect

\* _cleanup_old_users lines 201-204: a user whose pruned list is empty is deleted
\* from the map in the same run of the coroutine
remove_inactive_skipped(info) == info

remove_inactive(info) == IF info.requests = <<>> THEN NoInfo ELSE info

\* RateLimiter._cleanup_old_users, one wake-up of _periodic_cleanup
do_cleanup_old_users ==
    /\ cleanup_task
    /\ cleanup_state = "running"
    /\ LET cutoff == sweep_cutoff(now)
           kept(u) == Prune(users[u].requests, cutoff)
       IN  users' = [u \in UserIds |->
                        IF ~users[u].present THEN users[u]
                        ELSE remove_inactive([users[u] EXCEPT !.requests = kept(u)])]
    /\ emptied_at' = EmptiedAfter(users', emptied_at, now)
    /\ op_ret' = NoRet
    /\ UNCHANGED <<now, max_requests, cleanup_task, pending, returned_true,
                   returned_false, created, roundStart, emptyAtStart, absentAtStart,
                   createdAtStart, raised>>

cleanup_old_users == UNCHANGED nonLimiterVars /\ do_cleanup_old_users

\* RateLimiter.get_user_status(u), from its first line to its return
do_get_user_status(u) ==
    /\ IF ~has_user(users, u)
       THEN /\ op_ret' = [op |-> "get_user_status", user |-> u,
                          value |-> [limited |-> FALSE, requests_used |-> 0,
                                     requests_remaining |-> max_requests,
                                     reset_time |-> None]]
            /\ UNCHANGED <<users, raised>>
       ELSE LET user_info == users[u]
                pruned    == Prune(user_info.requests, now - WindowTicks)
                used      == Len(pruned)
            IN  /\ raised' = (raised \/ KeyError(user_info))
                /\ users' = [users EXCEPT ![u].requests = pruned]
                /\ op_ret' = [op |-> "get_user_status", user |-> u,
                              value |-> [limited |-> is_limited(pruned, max_requests),
                                         requests_used |-> used,
                                         requests_remaining |->
                                             requests_remaining(max_requests, used),
                                         reset_time |-> time_until_reset(pruned, now)]]
    /\ emptied_at' = EmptiedAfter(users', emptied_at, now)
    /\ UNCHANGED <<now, max_requests, cleanup_task, pending, returned_true,
                   returned_false, created, roundStart, emptyAtStart, absentAtStart,
                   createdAtStart>>

get_user_status(u) == UNCHANGED nonLimiterVars /\ do_get_user_status(u)

\* RateLimiter.reset_user(u), from its first line to its return
do_reset_user(u) ==
    /\ IF has_user(users, u)
       THEN /\ raised' = (raised \/ KeyError(users[u]))
            /\ users' = [users EXCEPT ![u].requests = clear(@)]
            /\ op_ret' = [op |-> "reset_user", user |-> u, value |-> TRUE]
       ELSE /\ op_ret' = [op |-> "reset_user", user |-> u, value |-> FALSE]
            /\ UNCHANGED <<users, raised>>
    /\ emptied_at' = EmptiedAfter(users', emptied_at, now)
    /\ UNCHANGED <<now, max_requests, cleanup_task, pending, returned_true,
                   returned_false, created, roundStart, emptyAtStart, absentAtStart,
                   createdAtStart>>

reset_user(u) == UNCHANGED nonLimiterVars /\ do_reset_user(u)

LimiterNext ==
    \/ Tick
    \/ \E n \in [UserIds -> 0..MaxCalls] : Gather(n)
    \/ \E u \in UserIds : check_user(u)
    \/ Collect
    \/ cleanup_old_users

\* RateLimiter.shutdown up to its await: with no task it returns at once,
\* otherwise it requests the cancellation and waits for the task
shutdown ==
    /\ sd_pc = "idle"
    /\ IF cleanup_task
       THEN /\ cleanup_state' = (IF cleanup_state = "running" THEN "cancelling"
                                                               ELSE cleanup_state)
            /\ sd_pc' = "waiting"
       ELSE /\ sd_pc' = "returned_no_task"
            /\ UNCHANGED cleanup_state
    /\ UNCHANGED <<limiterVars, directVars, batchVars, handlerVars, infoVars, lockVars,
                   bgVars, queueVars>>

\* _periodic_cleanup: the CancelledError is delivered at `await asyncio.sleep`,
\* the only suspension point of the loop, and the handler breaks out of it
periodic_cleanup_cancelled ==
    /\ cleanup_state = "cancelling"
    /\ cleanup_state' = "finished"
    /\ UNCHANGED <<sd_pc, limiterVars, directVars, batchVars, handlerVars, infoVars,
                   lockVars, bgVars, queueVars>>

\* RateLimiter.shutdown: `await self._cleanup_task` returns, shutdown returns
shutdown_return ==
    /\ sd_pc = "waiting"
    /\ cleanup_state = "finished"
    /\ sd_pc' = "returned"
    /\ UNCHANGED <<cleanup_state, limiterVars, directVars, batchVars, handlerVars,
                   infoVars, lockVars, bgVars, queueVars>>

\* one call of check_user for user u
One(u) == [v \in UserIds |-> IF v = u THEN 1 ELSE 0]

\* the limiter with all its coroutines: check_user calls arrive one at a time,
\* between status queries, resets and sweeps
OpsNext ==
    \/ Tick
    \/ \E u \in UserIds : Gather(One(u))
    \/ \E u \in UserIds : check_user(u)
    \/ Collect
    \/ cleanup_old_users
    \/ \E u \in UserIds : get_user_status(u)
    \/ \E u \in UserIds : reset_user(u)

\* the limiter until the process ends: check_user calls, sweeps and one shutdown
ShutdownNext ==
    \/ Tick
    \/ \E u \in UserIds : Gather(One(u))
    \/ \E u \in UserIds : check_user(u)
    \/ Collect
    \/ cleanup_old_users
    \/ shutdown
    \/ periodic_cleanup_cancelled
    \/ shutdown_return

\* RateLimitInfo.is_limited(): prunes the list, then compares its length
info_is_limited ==
    /\ LET pruned == Prune(i_requests, now - WindowTicks)
       IN  /\ i_requests' = pruned
           /\ i_ret' = [op |-> "is_limited", value |-> is_limited(pruned, max_requests),
                        requests |-> pruned, at |-> now]
    /\ UNCHANGED <<shutdownVars, lockVars, bgVars, queueVars, limiterVars, directVars,
                   batchVars, handlerVars>>

\* RateLimitInfo.add_request()
info_add_request ==
    /\ Len(i_requests) < MaxCalls
    /\ i_requests' = add_request(i_requests, now)
    /\ i_ret' = [op |-> "add_request", value |-> None, requests |-> i_requests', at |-> now]
    /\ UNCHANGED <<shutdownVars, lockVars, bgVars, queueVars, limiterVars, directVars,
                   batchVars, handlerVars>>

\* RateLimitInfo.time_until_reset(): reads the list as it is
info_time_until_reset ==
    /\ i_ret' = [op |-> "time_until_reset", value |-> time_until_reset(i_requests, now),
                 requests |-> i_requests, at |-> now]
    /\ UNCHANGED <<i_requests, shutdownVars, lockVars, bgVars, queueVars, limiterVars,
                   directVars, batchVars, handlerVars>>

\* the methods of one RateLimitInfo, called in any order as time passes
InfoNext ==
    \/ Tick
    \/ info_is_limited
    \/ info_add_request
    \/ info_time_until_reset

\* ------------------------------------------------ the limiter's locks
\* RateLimiter._global_lock; the lock of user u's RateLimitInfo is named u
global_lock == 0

NoRun == [op |-> "none", waited |-> FALSE, took_global |-> FALSE, steady |-> FALSE]

acquire(l) == [op |-> "acquire", lock |-> l]
release(l) == [op |-> "release", lock |-> l]
suspend == [op |-> "await", lock |-> -1]

\* `async with l:` around a body: no body of the limiter awaits anything
with_lock_awaiting(l, body) == <<acquire(l), suspend>> \o body \o <<release(l)>>

with_lock(l, body) == <<acquire(l)>> \o body \o <<release(l)>>

\* check_user lines 101-124: the map-level lock only to create the task or the
\* user's entry, then the user's own lock around check-and-add
check_user_events(has_task, has_usr, u) ==
    (IF ~has_task THEN with_lock(global_lock, <<>>) ELSE <<>>)
        \o (IF ~has_usr THEN with_lock(global_lock, <<>>) ELSE <<>>)
        \o with_lock(u, <<>>)

\* get_user_status lines 136-155
get_user_status_events(has_usr, u) == IF has_usr THEN with_lock(u, <<>>) ELSE <<>>

\* reset_user lines 167-173
reset_user_events(has_usr, u) == IF has_usr THEN with_lock(u, <<>>) ELSE <<>>

\* _cleanup_old_users lines 193-204: each user's lock in turn, no map-level lock
RECURSIVE cleanup_old_users_events(_, _)
cleanup_old_users_events(us, u) ==
    IF u > NumUsers THEN <<>>
    ELSE (IF us[u].present THEN with_lock(u, <<>>) ELSE <<>>)
            \o cleanup_old_users_events(us, u + 1)

\* _periodic_cleanup lines 177-180: one sweep, then back to asyncio.sleep
periodic_cleanup_events(us) == cleanup_old_users_events(us, 1) \o <<suspend>>

\* a coroutine runs until it suspends or returns: at an acquire of a lock another
\* coroutine holds, at an await, or at the end of its events
RECURSIVE run(_, _, _, _)
run(events, mine, others, got) ==
    IF events = <<>> THEN [held |-> mine, waited |-> FALSE, acquired |-> got]
    ELSE LET e == Head(events)
         IN  IF e.op = "acquire"
             THEN IF e.lock \in others
                  THEN [held |-> mine, waited |-> TRUE, acquired |-> got]
                  ELSE run(Tail(events), mine \cup {e.lock}, others, got \cup {e.lock})
             ELSE IF e.op = "release"
             THEN run(Tail(events), mine \ {e.lock}, others, got)
             ELSE [held |-> mine, waited |-> FALSE, acquired |-> got]

lk_check_user(u) ==
    /\ do_check_user(u)
    /\ LET r == run(check_user_events(cleanup_task, has_user(users, u), u),
                    {}, locks_held, {})
       IN  /\ locks_held' = locks_held \cup r.held
           /\ lk_last' = [op |-> "check_user", waited |-> r.waited,
                          took_global |-> global_lock \in r.acquired,
                          steady |-> cleanup_task /\ has_user(users, u)]
    /\ UNCHANGED <<shutdownVars, infoVars, bgVars, queueVars, directVars, batchVars,
                   handlerVars>>

\* the handler has consumed the result of its check_user call
lk_Collect ==
    /\ do_Collect
    /\ lk_last' = NoRun
    /\ UNCHANGED <<locks_held, shutdownVars, infoVars, bgVars, queueVars, directVars,
                   batchVars, handlerVars>>

lk_get_user_status(u) ==
    /\ do_get_user_status(u)
    /\ locks_held' = locks_held \cup
           run(get_user_status_events(has_user(users, u), u), {}, locks_held, {}).held
    /\ UNCHANGED <<lk_last, shutdownVars, infoVars, bgVars, queueVars, directVars,
                   batchVars, handlerVars>>

lk_reset_user(u) ==
    /\ do_reset_user(u)
    /\ locks_held' = locks_held \cup
           run(reset_user_events(has_user(users, u), u), {}, locks_held, {}).held
    /\ UNCHANGED <<lk_last, shutdownVars, infoVars, bgVars, queueVars, directVars,
                   batchVars, handlerVars>>

lk_periodic_cleanup ==
    /\ do_cleanup_old_users
    /\ locks_held' = locks_held \cup
           run(periodic_cleanup_events(users), {}, locks_held, {}).held
    /\ UNCHANGED <<lk_last, shutdownVars, infoVars, bgVars, queueVars, directVars,
                   batchVars, handlerVars>>

\* the coroutines of the limiter, each run from one suspension point to the next
LockNext ==
    \/ Tick
    \/ \E u \in UserIds : Gather(One(u))
    \/ \E u \in UserIds : lk_check_user(u)
    \/ lk_Collect
    \/ lk_periodic_cleanup
    \/ \E u \in UserIds : lk_get_user_status(u)
    \/ \E u \in UserIds : lk_reset_user(u)

\* ------------------------------------------------------ GeminiImageClient
NoResult == [kind |-> "none", val |-> 0]

\* what one attempt can meet: the call returns image bytes, the prompt is blocked
\* (ContentFilterError), the API fails for now or for good (any other exception);
\* in fuse_multiple_images an input image may fail to open before the call is made
Outcomes(op) ==
    {"ok", "filtered", "transient", "permanent"}
        \cup (IF op = "fuse" THEN {"badimage"} ELSE {})

\* `for attempt in range(retry_count)`: another iteration is due
in_range_incl(a, r) == a <= r
in_range(a, r) == a < r

\* the handler `except ContentFilterError: raise`
on_content_filter_retry(a, r) == IF a = r - 1 THEN "raise_api" ELSE "sleep"
on_content_filter(a, r) == "raise_filter"

\* the handler `except Exception`: give up on the last attempt, else back off
on_exception_no_retry(a, r) == "raise_api"
on_exception(a, r) == IF a = r - 1 THEN "raise_api" ELSE "sleep"

\* the argument of asyncio.sleep: 2 ** attempt
backoff_fixed(a) == 1

backoff(a) == 2 ^ a

\* fuse_multiple_images lines 107-110
valid_image_count(n) == n >= 2 /\ n <= 10

DirectInit ==
    /\ d_pc = "idle"
    /\ d_op = "generate"
    /\ retry_count = 0
    /\ attempt = 0
    /\ d_calls = 0
    /\ d_outcomes = <<>>
    /\ d_slept = 0
    /\ d_result = NoResult

\* a caller invokes generate_image, edit_image or fuse_multiple_images
d_start(op, r, n) ==
    /\ d_pc = "idle"
    /\ d_op' = op
    /\ retry_count' = r
    /\ attempt' = 0
    /\ IF op = "fuse" /\ ~valid_image_count(n)
       THEN /\ d_pc' = "raised"
            /\ d_result' = [kind |-> "GeminiAPIError", val |-> 0]
       ELSE /\ d_pc' = "loop"
            /\ d_result' = NoResult
    /\ UNCHANGED <<d_calls, d_outcomes, d_slept>>
    /\ UNCHANGED nonDirectVars

\* one iteration of the retry loop, up to its return, raise or sleep
d_attempt(o) ==
    /\ d_pc = "loop"
    /\ in_range(attempt, retry_count)
    /\ o \in Outcomes(d_op)
    /\ d_outcomes' = Append(d_outcomes, o)
    /\ d_calls' = IF o = "badimage" THEN d_calls ELSE d_calls + 1
    /\ LET todo == IF o = "ok" THEN "return"
                   ELSE IF o = "filtered" THEN on_content_filter(attempt, retry_count)
                   ELSE on_exception(attempt, retry_count)
       IN  /\ d_pc' = IF todo = "return" THEN "returned"
                      ELSE IF todo = "sleep" THEN "sleep" ELSE "raised"
           /\ d_result' =
                IF todo = "return" THEN [kind |-> "bytes", val |-> d_calls + 1]
                ELSE IF todo = "raise_filter" THEN [kind |-> "ContentFilterError", val |-> 0]
                ELSE IF todo = "raise_api"
                     THEN [kind |-> "GeminiAPIError", val |-> retry_count]
                ELSE d_result
    /\ UNCHANGED <<d_op, retry_count, attempt, d_slept>>
    /\ UNCHANGED nonDirectVars

\* `await asyncio.sleep(2 ** attempt)` returns and the loop advances
d_sleep ==
    /\ d_pc = "sleep"
    /\ d_slept' = d_slept + backoff(attempt)
    /\ attempt' = attempt + 1
    /\ d_pc' = "loop"
    /\ UNCHANGED <<d_op, retry_count, d_calls, d_outcomes, d_result>>
    /\ UNCHANGED nonDirectVars

\* the loop ends without a return or raise: the statement after it runs
d_after_loop ==
    /\ d_pc = "loop"
    /\ ~in_range(attempt, retry_count)
    /\ IF d_op = "fuse"
       THEN /\ d_pc' = "returned"
            /\ d_result' = [kind |-> "None", val |-> 0]
       ELSE /\ d_pc' = "raised"
            /\ d_result' = [kind |-> "GeminiAPIError", val |-> retry_count]
    /\ UNCHANGED <<d_op, retry_count, attempt, d_calls, d_outcomes, d_slept>>
    /\ UNCHANGED nonDirectVars

\* the caller has taken the result; the client is ready for the next call
d_finish ==
    /\ d_pc \in {"returned", "raised"}
    /\ d_pc' = "idle"
    /\ d_op' = "generate"
    /\ retry_count' = 0
    /\ attempt' = 0
    /\ d_calls' = 0
    /\ d_outcomes' = <<>>
    /\ d_slept' = 0
    /\ d_result' = NoResult
    /\ UNCHANGED nonDirectVars

DirectNext ==
    \/ \E op \in {"generate", "edit", "fuse"} : \E r \in 0..MaxRetry :
           \E n \in {1, 2, 11} : d_start(op, r, n)
    \/ \E o \in {"ok", "filtered", "transient", "permanent", "badimage"} : d_attempt(o)
    \/ d_sleep
    \/ d_after_loop
    \/ d_finish


\* --------------------------------------------------- GeminiBatchProcessor
min_batch_size == 1
max_batch_size == 100
max_wait == 300
poll_interval == 5
simulated_results == 3

Prompts == {"a", "b"}
PromptLists == UNION {[1..n -> Prompts] : n \in 0..MaxPrompts}

NoOutcome == [kind |-> "none", items |-> <<>>, message |-> <<>>]

\* GeminiAPIError(message): BananaBotError keeps the message and a user_message
\* that defaults to the same text for every GeminiAPIError
GeminiAPIError(msg) == [kind |-> "GeminiAPIError", items |-> <<>>, message |-> msg]

\* process_batch line 280-282: every exception leaves as a new GeminiAPIError
\* whose message is the old one behind a fixed prefix
wrap(e) == GeminiAPIError(<<"Batch processing failed">> \o e.message)

\* submit_batch_job lines 56-60
valid_batch_size(ps) == Len(ps) >= min_batch_size /\ Len(ps) <= max_batch_size

\* _sync_submit_batch: the job the batch API created, or the fallback job
sync_submit_batch(api) == IF api = "accepted" THEN "real" ELSE "fallback"

\* _sync_check_status: fallback jobs are complete, a failing query counts as complete
sync_check_status_no_fallback(job, reply) ==
    IF reply = "raises" THEN "COMPLETED" ELSE reply
sync_check_status(job, reply) ==
    IF job = "fallback" THEN "COMPLETED"
    ELSE IF reply = "raises" THEN "COMPLETED"
    ELSE reply

\* process_batch line 245: the loop condition `wait_time < max_wait`
within_budget_incl(w) == w <= max_wait
within_budget(w) == w < max_wait

\* the polling loop's reaction to a status
on_status_keep_polling(st) ==
    IF st = "FAILED" THEN "raise" ELSE "sleep"
on_status(st) ==
    IF st = "COMPLETED" THEN "break"
    ELSE IF st = "FAILED" THEN "raise"
    ELSE "sleep"

\* _simulate_batch_results: three records, whatever was submitted; ok[i] tells
\* whether _generate_single_image succeeded for record i
simulate_batch_results(ok) ==
    [i \in 1..simulated_results |->
        IF ok[i]
        THEN [request_id |-> i - 1, status |-> "SUCCESS", image_data |-> i,
              prompt |-> <<"Batch generated image", i>>]
        ELSE [request_id |-> i - 1, status |-> "FAILED", image_data |-> 0,
              prompt |-> <<>>]]

\* process_batch step 4: the (prompt, image_data) pairs of the successful records
RECURSIVE successful_results(_)
successful_results(rs) ==
    IF rs = <<>> THEN <<>>
    ELSE LET r == Head(rs)
             rest == successful_results(Tail(rs))
         IN  IF r.status = "SUCCESS"
             THEN <<[prompt |-> r.prompt, image |-> r.image_data]>> \o rest
             ELSE rest

\* the lifecycle status of the job process_batch is working on, read off its
\* position: nothing submitted yet, a job id obtained, statuses being polled, and
\* the three ways the workflow stops polling
JobStatus ==
    IF b_pc = "idle" THEN "None"
    ELSE IF b_pc = "start" THEN "Pending"
    ELSE IF status = "COMPLETED" THEN "Completed"
    ELSE IF status = "FAILED" THEN "Failed"
    ELSE IF b_pc = "raised" THEN (IF job_id = "none" THEN "Failed" ELSE "TimedOut")
    ELSE IF b_polls = 0 THEN "Submitted"
    ELSE "Polling"

\* slash_bot._should_use_batch
should_use_batch(enabled, ps) == enabled /\ Len(ps) > 1

BatchInit ==
    /\ b_pc = "idle"
    /\ prompts = <<>>
    /\ job_id = "none"
    /\ wait_time = 0
    /\ status = "none"
    /\ results = <<>>
    /\ b_out = NoOutcome
    /\ b_submits = 0
    /\ b_polls = 0
    /\ b_reply = "none"
    /\ b_fetches = 0
    /\ c_pc = "idle"
    /\ c_prompts = <<>>
    /\ c_i = 0
    /\ processed_results = <<>>

\* the state process_batch starts from
enter_process_batch(ps) ==
    /\ b_pc' = "start"
    /\ prompts' = ps
    /\ job_id' = "none"
    /\ wait_time' = 0
    /\ status' = "none"
    /\ results' = <<>>
    /\ b_out' = NoOutcome
    /\ b_submits' = 0
    /\ b_polls' = 0
    /\ b_reply' = "none"
    /\ b_fetches' = 0

\* the frame of process_batch is gone once its caller has the outcome
leave_process_batch ==
    /\ b_pc' = "idle"
    /\ prompts' = <<>>
    /\ job_id' = "none"
    /\ wait_time' = 0
    /\ status' = "none"
    /\ results' = <<>>
    /\ b_out' = NoOutcome
    /\ b_submits' = 0
    /\ b_polls' = 0
    /\ b_reply' = "none"
    /\ b_fetches' = 0

\* a command handler calls process_batch itself (bot/main.py)
b_start(ps) ==
    /\ b_pc = "idle"
    /\ c_pc = "idle"
    /\ enter_process_batch(ps)
    /\ UNCHANGED <<c_pc, c_prompts, c_i, processed_results>>
    /\ UNCHANGED nonBatchVars

\* step 1: submit_batch_job
b_submit(api) ==
    /\ b_pc = "start"
    /\ IF ~valid_batch_size(prompts)
       THEN /\ b_pc' = "raised"
            /\ b_out' = wrap(GeminiAPIError(<<"Batch must have at least 1 prompts">>))
            /\ UNCHANGED <<job_id, b_submits>>
       ELSE /\ b_pc' = "poll"
            /\ job_id' = sync_submit_batch(api)
            /\ b_submits' = b_submits + 1
            /\ b_out' = b_out
    /\ UNCHANGED <<prompts, wait_time, status, results, b_polls, b_reply, b_fetches,
                   c_pc, c_prompts, c_i, processed_results>>
    /\ UNCHANGED nonBatchVars

\* the reason genai.get_batch gives for a job in state FAILED
batch_job_error == "quota exceeded"

\* process_batch line 251, status.get('error', 'Unknown error'): the dict built
\* by _sync_check_status (lines 134-138) has the keys job_id, status and
\* created_time, and no 'error'
status_error(reply) == "Unknown error"

\* _sync_check_status lines 127-131: a fallback job is answered without a call
\* of genai.get_batch
asked(job, reply) == IF job = "fallback" THEN "not_asked" ELSE reply

\* step 2: one iteration of `while wait_time < max_wait`, up to its sleep
b_poll(reply) ==
    /\ b_pc = "poll"
    /\ within_budget(wait_time)
    /\ LET st == sync_check_status(job_id, reply)
           todo == on_status(st)
       IN  /\ status' = st
           /\ b_polls' = b_polls + 1
           /\ b_reply' = asked(job_id, reply)
           /\ b_pc' = IF todo = "break" THEN "fetch"
                      ELSE IF todo = "raise" THEN "raised" ELSE "sleep"
           /\ b_out' = IF todo = "raise"
                       THEN wrap(GeminiAPIError(<<"Batch job failed", status_error(reply)>>))
                       ELSE b_out
    /\ UNCHANGED <<prompts, job_id, wait_time, results, b_submits, b_fetches,
                   c_pc, c_prompts, c_i, processed_results>>
    /\ UNCHANGED nonBatchVars

\* `await asyncio.sleep(poll_interval)` returns
b_sleep ==
    /\ b_pc = "sleep"
    /\ wait_time' = wait_time + poll_interval
    /\ b_pc' = "poll"
    /\ UNCHANGED <<prompts, job_id, status, results, b_out, b_submits, b_polls, b_reply,
                   b_fetches, c_pc, c_prompts, c_i, processed_results>>
    /\ UNCHANGED nonBatchVars

\* the loop condition fails: `if wait_time >= max_wait: raise`
b_timeout ==
    /\ b_pc = "poll"
    /\ ~within_budget(wait_time)
    /\ wait_time >= max_wait
    /\ b_pc' = "raised"
    /\ b_out' = wrap(GeminiAPIError(<<"Batch job timed out after", max_wait, "seconds">>))
    /\ UNCHANGED <<prompts, job_id, wait_time, status, results, b_submits, b_polls, b_reply,
                   b_fetches, c_pc, c_prompts, c_i, processed_results>>
    /\ UNCHANGED nonBatchVars

\* steps 3 and 4: get_batch_results, then keep the successful records
b_fetch(ok) ==
    /\ b_pc = "fetch"
    /\ wait_time < max_wait
    /\ results' = simulate_batch_results(ok)
    /\ b_fetches' = b_fetches + 1
    /\ b_out' = [kind |-> "list", items |-> successful_results(results'),
                 message |-> <<>>]
    /\ b_pc' = "returned"
    /\ UNCHANGED <<prompts, job_id, wait_time, status, b_submits, b_polls, b_reply,
                   c_pc, c_prompts, c_i, processed_results>>
    /\ UNCHANGED nonBatchVars

\* the handler that called process_batch itself has taken the outcome
b_finish ==
    /\ b_pc \in {"returned", "raised"}
    /\ c_pc = "idle"
    /\ leave_process_batch
    /\ UNCHANGED <<c_pc, c_prompts, c_i, processed_results>>
    /\ UNCHANGED nonBatchVars

\* ---------------------------- slash_bot._process_with_batch_or_regular
p_start(ps, enabled) ==
    /\ c_pc = "idle"
    /\ b_pc = "idle"
    /\ c_prompts' = ps
    /\ processed_results' = <<>>
    /\ IF should_use_batch(enabled, ps)
       THEN /\ c_pc' = "batch"
            /\ c_i' = 0
            /\ enter_process_batch(ps)
       ELSE /\ c_pc' = "regular"
            /\ c_i' = 1
            /\ UNCHANGED <<b_pc, prompts, job_id, wait_time, status, results, b_out,
                           b_submits, b_polls, b_reply, b_fetches>>
    /\ UNCHANGED nonBatchVars

\* process_batch returned: convert its pairs to the standard format
p_batch_return ==
    /\ c_pc = "batch"
    /\ b_pc = "returned"
    /\ processed_results' =
          [i \in 1..Len(b_out.items) |->
              [prompt |-> b_out.items[i].prompt, image |-> b_out.items[i].image,
               batch |-> TRUE]]
    /\ c_pc' = "done"
    /\ leave_process_batch
    /\ UNCHANGED <<c_prompts, c_i>>
    /\ UNCHANGED nonBatchVars

\* process_batch raised: nothing catches it here
p_batch_raise ==
    /\ c_pc = "batch"
    /\ b_pc = "raised"
    /\ c_pc' = "raised"
    /\ leave_process_batch
    /\ UNCHANGED <<c_prompts, c_i, processed_results>>
    /\ UNCHANGED nonBatchVars

\* regular API: one iteration of `for prompt in prompts`; generate_image either
\* returns bytes or raises, and a raise is logged and skipped
p_regular_step(ok) ==
    /\ c_pc = "regular"
    /\ c_i <= Len(c_prompts)
    /\ processed_results' =
          IF ok THEN Append(processed_results,
                            [prompt |-> c_prompts[c_i], image |-> c_i, batch |-> FALSE])
          ELSE processed_results
    /\ c_i' = c_i + 1
    /\ UNCHANGED <<b_pc, prompts, job_id, wait_time, status, results, b_out,
                   b_submits, b_polls, b_reply, b_fetches, c_pc, c_prompts>>
    /\ UNCHANGED nonBatchVars

p_regular_return ==
    /\ c_pc = "regular"
    /\ c_i > Len(c_prompts)
    /\ c_pc' = "done"
    /\ UNCHANGED <<b_pc, prompts, job_id, wait_time, status, results, b_out,
                   b_submits, b_polls, b_reply, b_fetches, c_prompts, c_i, processed_results>>
    /\ UNCHANGED nonBatchVars

\* the slash command has taken the result
p_finish ==
    /\ c_pc \in {"done", "raised"}
    /\ c_pc' = "idle"
    /\ c_prompts' = <<>>
    /\ c_i' = 0
    /\ processed_results' = <<>>
    /\ UNCHANGED <<b_pc, prompts, job_id, wait_time, status, results, b_out,
                   b_submits, b_polls, b_reply, b_fetches>>
    /\ UNCHANGED nonBatchVars

BatchNext ==
    \/ \E ps \in PromptLists : b_start(ps)
    \/ \E api \in {"accepted", "api_error"} : b_submit(api)
    \/ \E reply \in {"COMPLETED", "FAILED", "RUNNING", "UNKNOWN", "raises"} : b_poll(reply)
    \/ b_sleep
    \/ b_timeout
    \/ \E ok \in [1..simulated_results -> BOOLEAN] : b_fetch(ok)
    \/ b_finish
    \/ \E ps \in PromptLists : \E enabled \in BOOLEAN : p_start(ps, enabled)
    \/ p_batch_return
    \/ p_batch_raise
    \/ \E ok \in BOOLEAN : p_regular_step(ok)
    \/ p_regular_return
    \/ p_finish

\* ------------------------------------------------------ BatchImageClient
\* BatchImageClient.__init__ line 39
batch_size == 10

\* _process_batches lines 85-86: the slice taken and the slice left
next_batch(p) == SubSeq(p, 1, Min(batch_size, Len(p)))

rest_overlapping(p) == Tail(p)

rest(p) == SubSeq(p, Min(batch_size, Len(p)) + 1, Len(p))

\* _process_batches lines 93-94: an exception is logged and the loop goes on
after_exception_stop == "stopped"

after_exception == "sleeping"

\* how _process_batch can end: normally, after handling an API failure itself
\* (lines 133-137), or with an exception that reaches _process_batches
BatchOutcomes == {"ok", "api_error", "raises"}

QueueInit ==
    /\ pending_requests = <<>>
    /\ q_submitted = 0
    /\ q_pc = "sleeping"
    /\ q_batch = <<>>
    /\ q_handed = [r \in 1..MaxSubmits |-> 0]
    /\ q_failed = FALSE
    /\ q_shutdown = FALSE

queueFrame == <<limiterVars, directVars, batchVars, handlerVars, shutdownVars, infoVars,
                lockVars, bgVars>>

\* BatchImageClient.submit_batch_request
submit_batch_request ==
    /\ q_submitted < MaxSubmits
    /\ q_submitted' = q_submitted + 1
    /\ pending_requests' = Append(pending_requests, q_submitted + 1)
    /\ UNCHANGED <<q_pc, q_batch, q_handed, q_failed, q_shutdown>>
    /\ UNCHANGED queueFrame

\* _process_batches: the sleep returns; with requests pending a batch is cut off
\* the queue under batch_lock and passed to _process_batch
process_batches_wake ==
    /\ q_pc = "sleeping"
    /\ IF pending_requests = <<>>
       THEN UNCHANGED <<pending_requests, q_pc, q_batch, q_handed>>
       ELSE LET batch == next_batch(pending_requests)
            IN  /\ pending_requests' = rest(pending_requests)
                /\ q_batch' = batch
                /\ q_handed' = [r \in 1..MaxSubmits |->
                       q_handed[r] + Cardinality({i \in 1..Len(batch) : batch[i] = r})]
                /\ q_pc' = "processing"
    /\ UNCHANGED <<q_submitted, q_failed, q_shutdown>>
    /\ UNCHANGED queueFrame

\* _process_batch is over and the loop goes back to its sleep
process_batch_done(outcome) ==
    /\ q_pc = "processing"
    /\ q_batch' = <<>>
    /\ q_failed' = (q_failed \/ outcome # "ok")
    /\ q_pc' = IF outcome = "raises" THEN after_exception ELSE "sleeping"
    /\ UNCHANGED <<pending_requests, q_submitted, q_handed, q_shutdown>>
    /\ UNCHANGED queueFrame

\* BatchImageClient.shutdown: the task is cancelled at its sleep or inside
\* _process_batch, whose handler does not catch CancelledError
batch_shutdown ==
    /\ ~q_shutdown
    /\ q_shutdown' = TRUE
    /\ q_pc' = "stopped"
    /\ q_batch' = <<>>
    /\ UNCHANGED <<pending_requests, q_submitted, q_handed, q_failed>>
    /\ UNCHANGED queueFrame

QueueNext ==
    \/ submit_batch_request
    \/ process_batches_wake
    \/ \E outcome \in BatchOutcomes : process_batch_done(outcome)
    \/ batch_shutdown

\* ------------------------------------------------------- command handlers
\* bot/main.py line 194: a batch command takes at most this many prompts
max_prompts_per_command == 10

HandlerKinds == {"_handle_generate", "_handle_batch", "generate"}

\* the prompt counts a batch command is tried with: none, one, several, too many
PromptCounts == (0..MaxPrompts) \cup {max_prompts_per_command + 1}

\* main_v2.batch_generate lines 400-406: the prompt counts it goes on with
accepts_prompt_count(n) == n >= 2 /\ n <= max_prompts_per_command

\* the user's recorded requests that count against the limit now
recorded(u) == InWindowCount(users[u].requests, now)

\* batch_generate is invoked with n prompts
bg_invoke(u, n) ==
    /\ bg_pc = "idle"
    /\ bg_user' = u
    /\ bg_n' = n
    /\ bg_i' = 0
    /\ bg_before' = recorded(u)
    /\ bg_pc' = IF accepts_prompt_count(n) THEN "loop" ELSE "rejected"
    /\ UNCHANGED <<limiterVars, directVars, batchVars, handlerVars,
                   shutdownVars, infoVars, lockVars, queueVars>>

\* `for _ in range(len(prompt_list))`: the next check_user call is made
bg_call ==
    /\ bg_pc = "loop"
    /\ do_Gather(One(bg_user))
    /\ bg_pc' = "called"
    /\ UNCHANGED <<bg_user, bg_n, bg_i, bg_before>>
    /\ UNCHANGED <<directVars, batchVars, handlerVars, shutdownVars, infoVars, lockVars,
                   queueVars>>

\* the call runs
bg_check_user ==
    /\ bg_pc = "called"
    /\ do_check_user(bg_user)
    /\ bg_pc' = "got"
    /\ UNCHANGED <<bg_user, bg_n, bg_i, bg_before>>
    /\ UNCHANGED <<directVars, batchVars, handlerVars, shutdownVars, infoVars, lockVars,
                   queueVars>>

\* lines 410-412: a refused call ends the command, an admitted one goes on with
\* the loop, and after the last one the batch is started
bg_result ==
    /\ bg_pc = "got"
    /\ bg_i' = bg_i + 1
    /\ bg_pc' = IF returned_false[bg_user] > 0 THEN "refused"
                ELSE IF bg_i + 1 = bg_n THEN "accepted" ELSE "loop"
    /\ do_Collect
    /\ UNCHANGED <<bg_user, bg_n, bg_before>>
    /\ UNCHANGED <<directVars, batchVars, handlerVars, shutdownVars, infoVars, lockVars,
                   queueVars>>

\* the command has replied
bg_end ==
    /\ bg_pc \in {"rejected", "refused", "accepted"}
    /\ bg_pc' = "idle"
    /\ bg_n' = 0
    /\ bg_i' = 0
    /\ bg_before' = 0
    /\ UNCHANGED bg_user
    /\ UNCHANGED <<limiterVars, directVars, batchVars, handlerVars,
                   shutdownVars, infoVars, lockVars, queueVars>>

\* batch_generate commands one after the other; time passes between them
BgNext ==
    \/ bg_pc = "idle" /\ Tick
    \/ \E u \in UserIds : \E n \in PromptCounts : bg_invoke(u, n)
    \/ bg_call
    \/ bg_check_user
    \/ bg_result
    \/ bg_end

\* where a handler goes first: _handle_batch replies at once to a bad prompt
\* count, passes a single prompt to _handle_generate and goes straight to
\* process_batch otherwise; _handle_generate and the slash command generate
\* start with check_user
first_step(kind, n) ==
    IF kind = "_handle_batch"
    THEN (IF n < 1 \/ n > max_prompts_per_command THEN "reply"
          ELSE IF n = 1 THEN "check"
          ELSE "handoff")
    ELSE "check"

\* the service a handler hands its prompts to
handoff_of(kind, has_image) ==
    IF kind = "_handle_batch" THEN "process_batch"
    ELSE IF kind = "_handle_generate"
         THEN (IF has_image THEN "edit_image" ELSE "process_batch")
    ELSE "generate_image"

HandlerInit ==
    /\ h_pc = "idle"
    /\ h_kind = "none"
    /\ h_user = 0
    /\ h_checked = FALSE
    /\ h_admitted = FALSE
    /\ h_handoff = "none"

\* a command arrives: the handler runs up to its first await
h_invoke(kind, u, n) ==
    /\ h_pc = "idle"
    /\ pending = Zero /\ returned_true = Zero /\ returned_false = Zero
    /\ kind # "_handle_batch" => n = 1
    /\ h_user' = u
    /\ h_kind' = IF kind = "_handle_batch" /\ n = 1 THEN "_handle_generate" ELSE kind
    /\ h_pc' = IF first_step(kind, n) = "reply" THEN "done" ELSE first_step(kind, n)
    /\ IF first_step(kind, n) = "check"
       THEN do_Gather(One(u))
       ELSE UNCHANGED limiterVars
    /\ UNCHANGED <<h_checked, h_admitted, h_handoff>>
    /\ UNCHANGED <<directVars, batchVars, extraVars>>

\* `if not await self.rate_limiter.check_user(user_id)`
h_check ==
    /\ h_pc = "check"
    /\ do_check_user(h_user)
    /\ h_checked' = TRUE
    /\ h_admitted' = (returned_true'[h_user] = 1)
    /\ h_pc' = IF returned_true'[h_user] = 1 THEN "handoff"
               ELSE IF h_kind = "generate" THEN "status"
               ELSE "done"
    /\ UNCHANGED <<h_kind, h_user, h_handoff>>
    /\ UNCHANGED <<directVars, batchVars, extraVars>>

\* the slash command asks for the status of a refused user and replies
h_status ==
    /\ h_pc = "status"
    /\ do_get_user_status(h_user)
    /\ h_pc' = "done"
    /\ UNCHANGED <<h_kind, h_user, h_checked, h_admitted, h_handoff>>
    /\ UNCHANGED <<directVars, batchVars, extraVars>>

\* the handler calls the generation service
h_hand_off(has_image) ==
    /\ h_pc = "handoff"
    /\ h_handoff' = handoff_of(h_kind, has_image)
    /\ h_pc' = "handed"
    /\ UNCHANGED <<h_kind, h_user, h_checked, h_admitted>>
    /\ UNCHANGED <<limiterVars, directVars, batchVars, extraVars>>

\* _handle_generate lines 85-89: process_batch returned no result, so the
\* handler calls generate_image
h_fallback ==
    /\ h_pc = "handed"
    /\ h_kind = "_handle_generate"
    /\ h_handoff = "process_batch"
    /\ h_handoff' = "generate_image"
    /\ UNCHANGED <<h_pc, h_kind, h_user, h_checked, h_admitted>>
    /\ UNCHANGED <<limiterVars, directVars, batchVars, extraVars>>

\* the handler has replied and returns
h_end ==
    /\ h_pc \in {"handed", "done"}
    /\ h_pc' = "idle"
    /\ h_kind' = "none"
    /\ h_user' = 0
    /\ h_checked' = FALSE
    /\ h_admitted' = FALSE
    /\ h_handoff' = "none"
    /\ IF h_checked THEN do_Collect ELSE UNCHANGED limiterVars
    /\ UNCHANGED <<directVars, batchVars, extraVars>>

HandlerNext ==
    \/ Tick
    \/ \E kind \in HandlerKinds : \E u \in UserIds : \E n \in PromptCounts :
           h_invoke(kind, u, n)
    \/ h_check
    \/ h_status
    \/ \E has_image \in BOOLEAN : h_hand_off(has_image)
    \/ h_fallback
    \/ h_end

ShutdownInit ==
    /\ cleanup_state = "running"
    /\ sd_pc = "idle"

\* RateLimitInfo as constructed by check_user line 109
InfoInit ==
    /\ i_requests = <<>>
    /\ i_ret = [op |-> "none", value |-> None, requests |-> <<>>, at |-> 0]

LockInit ==
    /\ locks_held = {}
    /\ lk_last = NoRun

BgInit ==
    /\ bg_pc = "idle"
    /\ bg_user = 1
    /\ bg_n = 0
    /\ bg_i = 0
    /\ bg_before = 0

ExtraInit == ShutdownInit /\ InfoInit /\ LockInit /\ BgInit /\ QueueInit

Init == LimiterInit /\ DirectInit /\ BatchInit /\ HandlerInit /\ ExtraInit

SpecLimiter == Init /\ [][LimiterNext]_vars
SpecLimiterOps == Init /\ [][OpsNext]_vars
SpecQueue == Init /\ [][QueueNext]_vars

\* the processor task is scheduled: its sleep returns and _process_batch returns
SpecQueueFair ==
    /\ SpecQueue
    /\ WF_vars(process_batches_wake)
    /\ WF_vars(\E outcome \in BatchOutcomes : process_batch_done(outcome))

SpecBatchGenerate == Init /\ [][BgNext]_vars
SpecLocks == Init /\ [][LockNext]_vars
SpecInfo == Init /\ [][InfoNext]_vars
SpecShutdown == Init /\ [][ShutdownNext]_vars

\* the awaited task is scheduled: the cancellation is delivered and shutdown resumes
SpecShutdownFair ==
    /\ SpecShutdown
    /\ WF_vars(periodic_cleanup_cancelled)
    /\ WF_vars(shutdown_return)

SpecHandlers == Init /\ [][HandlerNext]_vars

SpecDirect == Init /\ [][DirectNext]_vars

SpecBatch == Init /\ [][BatchNext]_vars

\* every await of process_batch returns: the executor calls complete and
\* asyncio.sleep wakes up
SpecBatchFair ==
    /\ SpecBatch
    /\ WF_vars(\E api \in {"accepted", "api_error"} : b_submit(api))
    /\ WF_vars(\E reply \in {"COMPLETED", "FAILED", "RUNNING", "UNKNOWN", "raises"} :
                  b_poll(reply))
    /\ WF_vars(b_sleep)
    /\ WF_vars(b_timeout)
    /\ WF_vars(\E ok \in [1..simulated_results -> BOOLEAN] : b_fetch(ok))

\* the executor call of an attempt completes and asyncio.sleep returns
SpecDirectFair ==
    /\ SpecDirect
    /\ WF_vars(\E o \in {"ok", "filtered", "transient", "permanent", "badimage"} : d_attempt(o))
    /\ WF_vars(d_sleep)
    /\ WF_vars(d_after_loop)

\* ------------------------------------------------------- claims, limiter
\* the calls of the current group for user u, and those that have returned
Calls(u) == pending[u] + returned_true[u] + returned_false[u]
Returned(u) == returned_true[u] + returned_false[u]
\* every timestamp recorded since the group was issued is still inside the window
SameWindow == now < roundStart + WindowTicks
\* the step in which a check_user(u) call runs
Runs(u) == pending'[u] = pending[u] - 1

\* C1: a check_user call returns True exactly when fewer than max_requests
\* timestamps of that user lie inside the window at the call, and it then
\* records one more, so the first max_requests calls of a window are admitted and
\* further ones are refused until an admitted timestamp has left the window; the
\* number of in-window timestamps recorded for a user never exceeds max_requests.
C1_WithinLimit ==
    \A u \in UserIds : InWindowCount(users[u].requests, now) <= max_requests

C1_AdmitIffBelow ==
    \A u \in UserIds : Runs(u) =>
        LET before == InWindowCount(users[u].requests, now)
            after  == InWindowCount(users'[u].requests, now)
            ok     == returned_true'[u] = returned_true[u] + 1
            no     == returned_false'[u] = returned_false[u] + 1
        IN  /\ ok <=> before < max_requests
            /\ no <=> ~ok
            /\ after = IF ok THEN before + 1 ELSE before

C1_AdmitUpToMax == [](C1_WithinLimit) /\ [][C1_AdmitIffBelow]_vars

\* three calls in one tick under max_requests = 2: two admitted, the third refused
C1_Witness ==
    /\ max_requests = 2
    /\ returned_true[1] = 2
    /\ returned_false[1] = 1
    /\ users[1].requests = <<now, now>>

\* C2: when k tasks call check_user together for a user whose window is empty,
\* exactly min(k, max_requests) of them return True, in whatever order the event
\* loop runs them.
C2_RaceExactlyMin ==
    \A u \in UserIds :
        ( /\ Calls(u) > 0
          /\ pending[u] = 0
          /\ emptyAtStart[u]
          /\ SameWindow )
        => returned_true[u] = Min(Calls(u), max_requests)

\* two racing calls under a limit of 1: one True, one False
C2_Witness ==
    /\ max_requests = 1
    /\ emptyAtStart[1]
    /\ SameWindow
    /\ pending[1] = 0
    /\ returned_true[1] = 1
    /\ returned_false[1] = 1

\* C10: concurrent first calls for one user construct exactly one RateLimitInfo
\* and all of them check and record against it: it holds one timestamp for every
\* call of the group that returned True; a RateLimitInfo in the users map that
\* holds an in-window timestamp is never replaced or removed.
C10_OneInfoPerUser ==
    \A u \in UserIds :
        (absentAtStart[u] /\ SameWindow /\ Calls(u) > 0) =>
            /\ created[u] <= createdAtStart[u] + 1
            /\ Returned(u) > 0 =>
                  /\ created[u] = createdAtStart[u] + 1
                  /\ users[u].present
                  /\ users[u].id = created[u]
                  /\ Len(users[u].requests) = returned_true[u]

C10_KeepLiveInfo ==
    \A u \in UserIds :
        (users[u].present /\ InWindowCount(users[u].requests, now) > 0)
            => (users'[u].present /\ users'[u].id = users[u].id)

C10_ExactlyOnceCreation == [](C10_OneInfoPerUser) /\ [][C10_KeepLiveInfo]_vars

\* two first calls of an unknown user have both run against one RateLimitInfo
C10_Witness ==
    /\ absentAtStart[1]
    /\ SameWindow
    /\ Returned(1) >= 2
    /\ created[1] = createdAtStart[1] + 1
    /\ users[1].id = created[1]

\* C11: the sweep and check_user never lose an admitted request, whatever the
\* order in which the event loop runs them: a step other than reset_user(u) keeps
\* every timestamp of u that is inside the window (so the sweep removes no user
\* and no timestamp that still counts), and an admitting check_user(u) leaves its
\* timestamp in the RateLimitInfo that is in the users map.
IsResetOf(u) == op_ret'.op = "reset_user" /\ op_ret'.user = u

C11_SweepKeepsLive ==
    \A u \in UserIds :
        ~IsResetOf(u) =>
            InWindowCount(users'[u].requests, now) >= InWindowCount(users[u].requests, now)

C11_AdmissionRecorded ==
    \A u \in UserIds :
        (Runs(u) /\ returned_true'[u] = returned_true[u] + 1) =>
            /\ users'[u].present
            /\ users'[u].requests # <<>>
            /\ users'[u].requests[Len(users'[u].requests)] = now

C11_NoLostAdmission == [][C11_SweepKeepsLive /\ C11_AdmissionRecorded]_vars

\* the sweep has removed user 1 between two check_user calls, and the second
\* call was admitted into a new window
C11_Witness ==
    /\ created[1] = 2
    /\ returned_true[1] = 1
    /\ users[1].present
    /\ users[1].requests = <<now>>

\* C12: a user at the limit is refused and get_user_status then reports a
\* reset_time that is present and equals oldest timestamp + window - now; a
\* refused call records nothing; and once more than the window has passed since
\* the oldest recorded timestamp the next check_user is admitted.
StatusOf(u) == op_ret.op = "get_user_status" /\ op_ret.user = u

C12_ResetTime ==
    \A u \in UserIds :
        (StatusOf(u) /\ op_ret.value.limited) =>
            /\ users[u].requests # <<>>
            /\ op_ret.value.reset_time # None
            /\ op_ret.value.reset_time > 0
            /\ op_ret.value.reset_time = oldest(users[u].requests) + WindowTicks - now

C12_RefusedRecordsNothing ==
    \A u \in UserIds :
        (Runs(u) /\ returned_false'[u] = returned_false[u] + 1) =>
            /\ Len(users[u].requests) >= max_requests
            /\ users'[u].requests = Prune(users[u].requests, now - WindowTicks)

C12_AdmittedAfterWindow ==
    \A u \in UserIds :
        ( /\ Runs(u)
          /\ users[u].requests # <<>>
          /\ now > oldest(users[u].requests) + WindowTicks )
        => returned_true'[u] = returned_true[u] + 1

C12_LimitThenReset ==
    /\ [](C12_ResetTime)
    /\ [][C12_RefusedRecordsNothing /\ C12_AdmittedAfterWindow]_vars

\* max_requests calls were admitted in this tick, one more was refused, and the
\* status query that followed reports a whole window until the reset
C12_Witness ==
    /\ returned_false[1] = 1
    /\ StatusOf(1)
    /\ op_ret.value.limited
    /\ op_ret.value.requests_used = max_requests
    /\ op_ret.value.reset_time = WindowTicks
    /\ \A i \in 1..Len(users[1].requests) : users[1].requests[i] = now

\* C13: reset_user(u) returns True for a user in users and leaves it there with
\* no timestamp, so that the next check_user(u) is admitted; for a user not in
\* users it returns False and creates nothing; no other user's entry changes.
C13_ResetEffect ==
    \A u \in UserIds :
        IsResetOf(u) =>
            /\ op_ret'.value = has_user(users, u)
            /\ has_user(users, u) =>
                  /\ users'[u].present
                  /\ users'[u].id = users[u].id
                  /\ users'[u].requests = <<>>
            /\ ~has_user(users, u) => users'[u] = users[u]
            /\ \A v \in UserIds \ {u} : users'[v] = users[v]

C13_AdmittedAfterReset ==
    \A u \in UserIds :
        (Runs(u) /\ has_user(users, u) /\ users[u].requests = <<>>) =>
            /\ returned_true'[u] = returned_true[u] + 1
            /\ users'[u].requests = <<now>>

C14_NeverRaises == ~raised

C14_UnknownAsUnused ==
    \A u \in UserIds :
        (Runs(u) /\ InWindowCount(users[u].requests, now) = 0) =>
            /\ (returned_true'[u] = returned_true[u] + 1) <=> (max_requests > 0)
            /\ (max_requests > 0) => (users'[u].present /\ users'[u].requests = <<now>>)

C14_NoRaiseUnknownIsUnused == [](C14_NeverRaises) /\ [][C14_UnknownAsUnused]_vars

\* user 1 was removed by the sweep, a later check_user built a new window for it
\* without raising, and its status was then queried
C14_Witness ==
    /\ ~raised
    /\ created[1] = 2
    /\ returned_true[1] = 1
    /\ StatusOf(1)
    /\ op_ret.value.requests_used = 1

\* C15: get_user_status(u) creates no entry for an unknown user, changes no
\* other user, and leaves the outcome of every later check_user as it was (the
\* timestamps that count at any time from now on are the same before and after);
\* it reports requests_used = the number of u's timestamps inside the window,
\* requests_remaining = max_requests - requests_used, never negative, and
\* limited exactly when a check_user at this instant would be refused.
IsStatusOf(u) == op_ret'.op = "get_user_status" /\ op_ret'.user = u

C15_ReadOnly ==
    \A u \in UserIds :
        IsStatusOf(u) =>
            /\ users'[u].present = users[u].present
            /\ users'[u].id = users[u].id
            /\ \A t \in now..MaxTime :
                  Prune(users'[u].requests, t - WindowTicks)
                      = Prune(users[u].requests, t - WindowTicks)
            /\ \A v \in UserIds \ {u} : users'[v] = users[v]
            /\ UNCHANGED <<now, max_requests, pending, returned_true, returned_false>>

C15_Report ==
    \A u \in UserIds :
        IsStatusOf(u) =>
            LET used == InWindowCount(users[u].requests, now)
                v    == op_ret'.value
            IN  /\ v.requests_used = used
                /\ v.requests_remaining = max_requests - used
                /\ v.requests_remaining >= 0
                /\ v.limited <=> is_limited(Prune(get_or_create(users, u, created).requests,
                                                  now - WindowTicks), max_requests)

C15_StatusReadOnly == [][C15_ReadOnly /\ C15_Report]_vars

\* a status query found user 1 in users with nothing left inside the window
C15_Witness ==
    /\ StatusOf(1)
    /\ users[1].present
    /\ users[1].requests = <<>>
    /\ emptied_at[1] = now
    /\ op_ret.value.requests_used = 0
    /\ op_ret.value.requests_remaining = max_requests
    /\ ~op_ret.value.limited

\* C16: the sweep removes a user from users only if its window has held no
\* timestamp for more than 2 x the window: either every timestamp it still lists
\* is older than that, or its list has been empty (after reset_user or lazy
\* pruning) for more than 2 x the window.
C16_RemovedOnlyAfterTwoWindows ==
    [][\A u \in UserIds :
          (users[u].present /\ ~users'[u].present) =>
              IF users[u].requests # <<>>
              THEN \A i \in 1..Len(users[u].requests) :
                       users[u].requests[i] <= now - 2 * WindowTicks
              ELSE emptied_at[u] # None /\ now - emptied_at[u] > 2 * WindowTicks]_vars

\* --------------------------------------------------- claims, direct path
IsFailure(o) == o \in {"transient", "permanent"}

\* C4: a ContentFilterError met on any attempt ends the call at once with that
\* error, so a filtered outcome is always the last attempt; when the first
\* attempt is filtered the underlying call was made exactly once.
C4_FilterNotRetried ==
    /\ \A i \in 1..Len(d_outcomes) :
           d_outcomes[i] = "filtered" =>
               /\ i = Len(d_outcomes)
               /\ d_pc = "raised"
               /\ d_result.kind = "ContentFilterError"
    /\ (retry_count >= 1 /\ Len(d_outcomes) >= 1 /\ d_outcomes[1] = "filtered")
           => d_calls = 1

\* generate_image(retry_count=3) whose first attempt is blocked
C4_Witness ==
    /\ d_op = "generate"
    /\ retry_count = 3
    /\ d_outcomes = <<"filtered">>
    /\ d_calls = 1
    /\ d_pc = "raised"

\* C5: generate_image and edit_image with retry_count = R >= 1 call the
\* underlying function until the first success or until R calls were made: a
\* return carries the bytes of the first successful attempt j after exactly j
\* calls, R failed attempts end in GeminiAPIError('after R attempts') after
\* exactly R calls, no GeminiAPIError comes earlier, and the call terminates.
C5_RetryShape ==
    (d_op \in {"generate", "edit"} /\ retry_count >= 1 /\ d_pc # "idle") =>
        /\ d_calls = Len(d_outcomes)
        /\ d_calls <= retry_count
        /\ d_pc \in {"loop", "sleep"} =>
              /\ \A i \in 1..Len(d_outcomes) : IsFailure(d_outcomes[i])
              /\ Len(d_outcomes) < retry_count
        /\ d_pc = "returned" =>
              /\ d_calls >= 1
              /\ d_outcomes[d_calls] = "ok"
              /\ \A i \in 1..(d_calls - 1) : IsFailure(d_outcomes[i])
              /\ d_result = [kind |-> "bytes", val |-> d_calls]
        /\ (Len(d_outcomes) = retry_count
              /\ \A i \in 1..Len(d_outcomes) : IsFailure(d_outcomes[i])) =>
              /\ d_pc = "raised"
              /\ d_result = [kind |-> "GeminiAPIError", val |-> retry_count]
              /\ d_calls = retry_count
        /\ (d_pc = "raised" /\ d_result.kind = "GeminiAPIError") =>
              Len(d_outcomes) = retry_count

C5_RetryUntilSuccessOrExhausted ==
    /\ [](C5_RetryShape)
    /\ (d_pc \in {"loop", "sleep"}) ~> (d_pc \in {"returned", "raised"})

\* retry_count = 2, first attempt fails, second succeeds: two calls, its bytes
C5_Witness ==
    /\ d_op = "generate"
    /\ retry_count = 2
    /\ d_outcomes = <<"transient", "ok">>
    /\ d_pc = "returned"
    /\ d_calls = 2
    /\ d_result = [kind |-> "bytes", val |-> 2]

\* ---------------------------------------------------- claims, batch path
TerminalStatus == {"Completed", "Failed", "TimedOut"}
Rank(st) ==
    CASE st = "None" -> 0
      [] st = "Pending" -> 0
      [] st = "Submitted" -> 1
      [] st = "Polling" -> 2
      [] OTHER -> 3

\* C3: when process_batch, or _process_with_batch_or_regular, finishes without
\* a timeout, the list it hands back has one entry per submitted prompt.
C3_OneOutcomePerPrompt ==
    /\ b_pc = "returned" => Len(b_out.items) = Len(prompts)
    /\ c_pc = "done" => Len(processed_results) = Len(c_prompts)

\* C6: within one run of process_batch the job status never moves backwards,
\* the run ends in a terminal status, and after a terminal status there is no
\* other status, no further status poll and no further submission.
C6_EndsTerminal == b_pc \in {"returned", "raised"} => JobStatus \in TerminalStatus

C6_Forward ==
    (b_pc # "idle" /\ b_pc' # "idle") =>
        /\ Rank(JobStatus') >= Rank(JobStatus)
        /\ JobStatus \in TerminalStatus =>
              /\ JobStatus' = JobStatus
              /\ b_polls' = b_polls
              /\ b_submits' = b_submits

C6_StatusOnlyForward == [](C6_EndsTerminal) /\ [][C6_Forward]_vars

\* a job that was polled more than once and then completed
C6_Witness ==
    /\ b_pc = "returned"
    /\ JobStatus = "Completed"
    /\ b_polls >= 2
    /\ job_id = "real"

\* C7: the outcome process_batch gives on a timeout is of another error kind
\* than the outcome it gives when the status query reported FAILED.
C7_TimeoutDistinctFromFailed ==
    (b_pc = "raised" /\ JobStatus = "TimedOut") =>
        b_out.kind # wrap(GeminiAPIError(<<"Batch job failed", "Unknown error">>)).kind

\* C8: on the fallback path process_batch returns one outcome per submitted
\* prompt, each labelled with its own prompt, in the submitted order.
C8_FallbackKeepsPrompts ==
    (b_pc = "returned" /\ job_id = "fallback") =>
        /\ Len(b_out.items) = Len(prompts)
        /\ \A i \in 1..Len(prompts) : b_out.items[i].prompt = prompts[i]

\* C9: the i-th outcome of a completed batch belongs to the i-th submitted
\* prompt: it is the result record whose request identifier is that of prompt i.
C9_MatchedByRequestId ==
    b_pc = "returned" =>
        \A i \in 1..Len(b_out.items) :
            /\ i <= Len(prompts)
            /\ \E k \in 1..Len(results) :
                  /\ results[k].request_id = i - 1
                  /\ results[k].status = "SUCCESS"
                  /\ b_out.items[i] = [prompt |-> prompts[i],
                                       image |-> results[k].image_data]

\* C17: process_batch always comes to an end; it submits the job once, queries
\* the status at most max_wait / poll_interval times, and when the budget is
\* used up it stops with the time-out error: no further submit, poll or fetch.
MaxPolls == max_wait \div poll_interval

C17_Budget ==
    /\ b_submits <= 1
    /\ b_polls <= MaxPolls
    /\ b_polls * poll_interval <= wait_time + poll_interval
    /\ (b_pc \in {"poll", "sleep", "fetch", "returned"}) => b_submits = 1
    /\ (b_pc # "idle" /\ ~within_budget(wait_time)) =>
          /\ b_polls = MaxPolls
          /\ b_fetches = 0
          /\ b_pc \in {"poll", "raised"}
          /\ b_pc = "raised" =>
                b_out = wrap(GeminiAPIError(<<"Batch job timed out after", max_wait, "seconds">>))

C17_NoRetryAfterEnd ==
    (b_pc \in {"returned", "raised"}) =>
        (b_pc' # b_pc => b_pc' \in {"idle", "start"})

C17_Ends ==
    (b_pc \in {"start", "poll", "sleep", "fetch"}) ~> (b_pc \in {"returned", "raised"})

C17_TerminatesWithinBudget ==
    /\ [](C17_Budget)
    /\ [][C17_NoRetryAfterEnd]_vars
    /\ C17_Ends

\* the budget was used up: sixty polls, none of them final, then the time-out
C17_Witness ==
    /\ b_pc = "raised"
    /\ b_submits = 1
    /\ b_polls = MaxPolls
    /\ wait_time = max_wait
    /\ b_fetches = 0
    /\ status \in {"RUNNING", "UNKNOWN"}

\* C18: when the batch API refuses the submission, process_batch does not raise:
\* it goes on with the fallback job, whose first status is COMPLETED, and hands
\* its caller a list; the list is empty only if every generation of the fallback
\* processing failed.
C18_SubmitFailureNotSurfaced ==
    (job_id = "fallback") =>
        /\ b_pc # "raised"
        /\ b_polls <= 1
        /\ (b_polls = 1) => (status = "COMPLETED")
        /\ (b_pc = "returned") =>
              /\ b_out.kind = "list"
              /\ (b_out.items = <<>>) <=>
                    (\A i \in 1..Len(results) : results[i].status = "FAILED")

\* the submission failed and the caller still got images
C18_Witness ==
    /\ job_id = "fallback"
    /\ b_pc = "returned"
    /\ b_out.kind = "list"
    /\ Len(b_out.items) >= 1

\* C19: a permanent gateway error ends the direct call with the attempt that met
\* it: a permanent outcome is always the last attempt of the call, and the call
\* has raised.
C19_PermanentNotRetried ==
    \A i \in 1..Len(d_outcomes) :
        d_outcomes[i] = "permanent" =>
            /\ i = Len(d_outcomes)
            /\ d_pc = "raised"

\* C20: a handler calls a generation service only after a check_user call of
\* the same run, for the same user, has returned True.
C20_HandoffOnlyAfterAdmission ==
    (h_handoff # "none") => (h_checked /\ h_admitted)

\* a step of the sweep: the map changes and no check_user call has run
IsSweep == users' # users /\ pending' = pending

\* C21: shutdown() cancels the periodic cleanup task and completes; once it has
\* returned the task performs no further sweep (no user leaves the map any more),
\* and no sweep is cut in the middle: after a sweep each user is either kept
\* with every timestamp newer than the sweep cutoff, or gone from the map, never
\* left in the map with an emptied list.
C21_ShutdownCancelsCleanup ==
    /\ (sd_pc = "waiting") ~> (sd_pc = "returned")
    /\ [][ /\ (sd_pc = "returned") =>
              \A u \in UserIds : users[u].present => users'[u].present
           /\ IsSweep =>
                \A u \in UserIds :
                   \/ ~users'[u].present
                   \/ /\ users'[u].requests # <<>>
                      /\ \A i \in 1..Len(users[u].requests) :
                            users[u].requests[i] > sweep_cutoff(now) =>
                                \E j \in 1..Len(users'[u].requests) :
                                    users'[u].requests[j] = users[u].requests[i] ]_vars

\* shutdown has returned and a user whose only timestamp is two windows old is
\* still in the map: the sweep that would have removed it never runs
C21_Witness ==
    /\ sd_pc = "returned"
    /\ cleanup_state = "finished"
    /\ \E u \in UserIds :
          /\ users[u].present
          /\ Len(users[u].requests) = 1
          /\ users[u].requests[1] <= sweep_cutoff(now)

\* C22: time_until_reset() returns None exactly when no recorded timestamp is
\* still inside the window, and then is_limited() is false; otherwise it returns
\* the positive time until the oldest in-window timestamp leaves the window.
C22_ResetTimeOfOldestInWindow ==
    (i_ret.op = "time_until_reset") =>
        LET active == Prune(i_ret.requests, i_ret.at - WindowTicks)
        IN  IF active = <<>>
            THEN i_ret.value = None /\ ~is_limited(active, max_requests)
            ELSE /\ i_ret.value # None
                 /\ i_ret.value > 0
                 /\ i_ret.value = oldest(active) + WindowTicks - i_ret.at

\* C23: check_user never waits on another task: no lock of the limiter is held
\* by a suspended coroutine (check_user, get_user_status, reset_user or the
\* sweep), so check_user reaches its result without suspending at a lock; and a
\* call that finds both the cleanup task and the user's entry in place does not
\* take the map-level lock.
C23_CheckUserNeverWaits ==
    /\ locks_held = {}
    /\ (lk_last.op = "check_user") =>
          /\ ~lk_last.waited
          /\ lk_last.steady => ~lk_last.took_global

\* a check_user call in steady state, after a status query left the entry alone
C23_Witness ==
    /\ lk_last.op = "check_user"
    /\ lk_last.steady
    /\ ~lk_last.took_global
    /\ \E u \in UserIds : users[u].present /\ Len(users[u].requests) >= 2

\* C24: the workflow treats a job as completed only when the external status
\* query reported success: a query that raises, or that reports an unknown
\* state, never yields COMPLETED and never leads to results being fetched.
C24_CompletedOnlyOnReportedSuccess ==
    /\ (status = "COMPLETED") => (b_reply = "COMPLETED")
    /\ (b_pc = "fetch" \/ b_fetches > 0) => (b_reply = "COMPLETED")

\* C25: get_batch_results is called only after a status query returned
\* COMPLETED, and at most once per job; when the job is reported FAILED the
\* workflow stops polling, fetches nothing and raises a failure that carries the
\* reported reason; after a time-out nothing is fetched either.
C25_FetchOnlyAfterCompleted ==
    /\ b_fetches <= 1
    /\ (b_pc = "fetch" \/ b_fetches > 0) => (status = "COMPLETED")
    /\ (status = "FAILED") =>
          /\ b_pc = "raised"
          /\ b_fetches = 0
          /\ \E i \in 1..Len(b_out.message) : b_out.message[i] = batch_job_error
    /\ (b_pc = "raised" /\ JobStatus = "TimedOut") => (b_fetches = 0)

\* the same without the reason: what process_batch does keep
C25_FetchGate ==
    /\ b_fetches <= 1
    /\ (b_pc = "fetch" \/ b_fetches > 0) => (status = "COMPLETED")
    /\ (status = "FAILED") => (b_pc = "raised" /\ b_fetches = 0)
    /\ (b_pc = "raised" /\ JobStatus = "TimedOut") => (b_fetches = 0)

\* every attempt of the call has failed with an error other than the content filter
AllAttemptsFailed ==
    /\ d_pc = "raised"
    /\ retry_count >= 1
    /\ Len(d_outcomes) = retry_count
    /\ \A i \in 1..Len(d_outcomes) : d_outcomes[i] \notin {"ok", "filtered"}

\* C26: after a failed attempt with index a (counted from 0) that is not the
\* last one, a < retry_count - 1, the client sleeps exactly 2^a seconds before
\* the next attempt; it does not sleep after the last failed attempt; a call whose
\* R attempts all fail has slept 2^(R-1) - 1 seconds in total.
C26_ExponentialBackoff ==
    /\ [](AllAttemptsFailed => d_slept = 2 ^ (retry_count - 1) - 1)
    /\ [][ (d_slept' # d_slept /\ d_pc = "sleep") =>
              /\ Len(d_outcomes) = attempt + 1
              /\ d_outcomes[attempt + 1] \notin {"ok", "filtered"}
              /\ attempt < retry_count - 1
              /\ d_slept' = d_slept + 2 ^ attempt
              /\ attempt' = attempt + 1 ]_vars

\* three attempts of a call with retry_count = 3 have failed: 1 + 2 seconds slept
C26_Witness ==
    /\ AllAttemptsFailed
    /\ retry_count = 3
    /\ d_slept = 3

\* C27: batch_generate consumes the quota of its N prompts all or nothing: when
\* the command is refused the user's recorded request count is what it was
\* before the command, and when it is accepted the count has risen by exactly N.
C27_QuotaAllOrNothing ==
    /\ (bg_pc = "refused") => (recorded(bg_user) = bg_before)
    /\ (bg_pc = "accepted") => (recorded(bg_user) = bg_before + bg_n)

\* the requests still queued, as a set
Queued == {pending_requests[i] : i \in 1..Len(pending_requests)}

\* C28: whatever the interleaving of submit_batch_request with _process_batches,
\* each batch is the first min(batch_size, pending) queued requests in arrival
\* order and leaves the queue in the same step; no request is ever in two
\* batches, and no request leaves the queue without being passed to
\* _process_batch.
C28_BatchIsQueuePrefix ==
    /\ [](\A r \in 1..MaxSubmits :
            /\ q_handed[r] <= 1
            /\ (r <= q_submitted) => ((r \in Queued) <=> (q_handed[r] = 0))
            /\ (r > q_submitted) => (r \notin Queued /\ q_handed[r] = 0))
    /\ [][ (q_handed' # q_handed) =>
              LET k == Min(batch_size, Len(pending_requests))
              IN  /\ Len(q_batch') = k
                  /\ \A i \in 1..k : q_batch'[i] = pending_requests[i]
                  /\ Len(pending_requests') = Len(pending_requests) - k
                  /\ \A i \in 1..Len(pending_requests') :
                        pending_requests'[i] = pending_requests[k + i] ]_vars

\* a full batch has been cut off a longer queue: requests are still waiting
C28_Witness ==
    /\ q_pc = "processing"
    /\ Len(q_batch) = batch_size
    /\ pending_requests # <<>>
    /\ q_batch[1] > 1

\* C29: every request accepted by submit_batch_request is eventually passed to
\* _process_batch, as long as the processor task is scheduled and shutdown is not
\* called; a batch that ends with an exception does not keep later batches from
\* being taken.
C29_EveryRequestHanded ==
    \A r \in 1..MaxSubmits :
        (r <= q_submitted) ~> (q_handed[r] >= 1 \/ q_shutdown)

\* a batch ended with an exception, and a request submitted behind it is being
\* processed in a later batch
C29_Witness ==
    /\ q_failed
    /\ ~q_shutdown
    /\ q_pc = "processing"
    /\ q_batch[1] > 1

\* C30: for every retry_count >= 0 and every pattern of attempt outcomes, a call
\* of generate_image, edit_image or fuse_multiple_images ends by returning image
\* bytes or by raising GeminiAPIError or ContentFilterError; none returns to its
\* caller without a result.
C30_BytesOrTypedError ==
    /\ (d_pc = "returned") => (d_result.kind = "bytes")
    /\ (d_pc = "raised") => (d_result.kind \in {"GeminiAPIError", "ContentFilterError"})

====
